---- MODULE Spec2Model ----
(***************************************************************************)
(* A model of loot (src/loot/loot.py): the progressive bracket tax (itax), *)
(* the loan dataframe (ldf) with the yearly deductible interest (dedmint), *)
(* and the I bond valuation (ibnd).                                        *)
(*                                                                         *)
(* Numbers.  Python floats are modelled by exact integer arithmetic on     *)
(* scaled quantities: money in cents (or finer, where said), rates as      *)
(* integer fractions.  round(x, 2) is round-half-to-even on the exact      *)
(* value.  The three calculations share no state; each has a               *)
(* specification of its own (SpecTax, SpecLoan, SpecBond) that leaves the  *)
(* variables of the other two at their idle values.                        *)
(***************************************************************************)
EXTENDS Integers, Sequences, FiniteSets, TLC

VARIABLES
    \* itax
    taxpc,      \* "idle" | "call" | "done"
    tinc,       \* taxable income, dollars
    table,      \* the tax table: a sequence of <<threshold, rate>> (dict order)
    taxOut,     \* the outcome of itax
    \* ldf, dedmint
    loanpc,     \* "idle" | "call" | "done"
    loanOp,     \* "ldf" | "dedmint"
    rate,       \* annual rate, percent (3 is 0.03)
    nper,       \* loan term, months
    lprin,      \* loan principal, dollars
    start_date, \* ldf's start_date, or NoDate for None
    loanOut,    \* the dataframe returned: a sequence of rows
    \* ibnd
    bondpc,     \* "idle" | "loop" | "returned" | "raised"
    pdate,      \* purchase date
    principal,  \* the bond purchase, dollars (the argument prin)
    redate,     \* redemption date
    early_penalty,
    IBND,       \* the rate table: rate date -> <<fixed, floating>>, thousandths
    prin,       \* the list prin: accrued values, thousandths of a dollar
    date,       \* the simulated date
    m,          \* months since the rate was looked up, 1..6
    rdate,      \* the rate date in force
    fixed_rate,
    used,       \* history: the rate date each compounding step used
    picked,     \* history: the position of prin read for val, -1 if none
    val,        \* the value extracted, -1 if none
    ret         \* the value returned, -1 if none

taxVars == <<taxpc, tinc, table, taxOut>>

loanVars == <<loanpc, loanOp, rate, nper, lprin, start_date, loanOut>>

bondVars == <<bondpc, pdate, principal, redate, early_penalty, IBND, prin, date,
              m, rdate, fixed_rate, used, picked, val, ret>>

vars == <<taxpc, tinc, table, taxOut,
          loanpc, loanOp, rate, nper, lprin, start_date, loanOut,
          bondpc, pdate, principal, redate, early_penalty, IBND, prin, date,
          m, rdate, fixed_rate, used, picked, val, ret>>

---------------------------------------------------------------------------
(* Arithmetic helpers *)

Max(a, b) == IF a >= b THEN a ELSE b

Min(a, b) == IF a <= b THEN a ELSE b

Abs(a) == IF a >= 0 THEN a ELSE -a

RECURSIVE Pow(_, _)
Pow(b, e) == IF e = 0 THEN 1 ELSE b * Pow(b, e - 1)

RECURSIVE Gcd(_, _)
Gcd(a, b) == IF b = 0 THEN a ELSE Gcd(b, a % b)

\* round-half-to-even of num/den (den > 0), as Python's round and numpy's
\* around do on the exact value
RoundDiv(num, den) ==
    LET q == num \div den
        r == num % den
    IN  IF 2 * r < den THEN q
        ELSE IF 2 * r > den THEN q + 1
        ELSE IF q % 2 = 0 THEN q ELSE q + 1

\* <<quotient, remainder>> of p * x by y (p, x >= 0, y > 0), computed by
\* doubling so that no intermediate product leaves the integer range
RECURSIVE MulDivMod(_, _, _)
MulDivMod(p, x, y) ==
    IF x = 0 THEN <<0, 0>>
    ELSE LET h == MulDivMod(p, x \div 2, y)
             add == IF x % 2 = 1 THEN p ELSE 0
             r == 2 * h[2] + (add % y)
         IN  <<2 * h[1] + (add \div y) + (r \div y), r % y>>

\* round-half-to-even of p * x / y
MulDivRound(p, x, y) ==
    LET qr == MulDivMod(p, x, y)
    IN  IF 2 * qr[2] < y THEN qr[1]
        ELSE IF 2 * qr[2] > y THEN qr[1] + 1
        ELSE IF qr[1] % 2 = 0 THEN qr[1] ELSE qr[1] + 1

---------------------------------------------------------------------------
(* itax: income tax from a bracket table.                                  *)
(* Income is in whole dollars, a rate in thousandths (0.12 is 120), the    *)
(* running tax in thousandths of a dollar, the returned tax in cents.      *)

\* round(tax, 2): thousandths of a dollar to cents
Round2(milli) == RoundDiv(milli, 10)

\* brackets = list(table.keys())
brackets(t) == [i \in 1..Len(t) |-> t[i][1]]

\* table[bracket]
rateOf(t, i) == t[i][2]

Value(v) == [kind |-> "value", value |-> v]

Raised(e) == [kind |-> e]

\* the for loop of itax from the bracket at position n (1-based: Python's n + 1)
\* on, with the tax accumulated so far
RECURSIVE itaxLoop(_, _, _, _)
itaxLoop(inc, t, n, tax) ==
    IF n > Len(t) THEN Value(Round2(tax))
    ELSE IF n + 1 > Len(t) THEN Raised("IndexError")
    ELSE IF inc > brackets(t)[n + 1]
         THEN itaxLoop(inc, t, n + 1,
                       tax + (brackets(t)[n + 1] - brackets(t)[n]) * rateOf(t, n))
         ELSE Value(Round2(tax + (inc - brackets(t)[n]) * rateOf(t, n)))

itax(inc, t) == itaxLoop(inc, t, 1, 0)

\* The tax tables of the calls: prefixes of a table shaped as USTAX/CATAX
\* (thresholds strictly increasing from 0)
MaxBrackets == 3

FullTable == <<
    <<0, 100>>, <<20, 120>>, <<45, 93>>, <<70, 220>>, <<90, 240>>, <<120, 320>> >>

Tables == { SubSeq(FullTable, 1, k) : k \in 1..Min(MaxBrackets, Len(FullTable)) }

MaxIncome == 80

MaxNegIncome == 5

Incomes == (-MaxNegIncome)..MaxIncome

NoOut == [kind |-> "none"]

NoDate == [y |-> 0, m |-> 0, d |-> 0]

LoanIdle ==
    /\ loanpc = "idle" /\ loanOp = "none" /\ rate = 0 /\ nper = 0 /\ lprin = 0
    /\ start_date = NoDate /\ loanOut = <<>>

BondIdle ==
    /\ bondpc = "idle" /\ pdate = NoDate /\ principal = 0 /\ redate = NoDate
    /\ early_penalty = FALSE /\ IBND = <<>> /\ prin = <<>> /\ date = NoDate
    /\ m = 0 /\ rdate = NoDate /\ fixed_rate = 0 /\ used = <<>>
    /\ picked = -1 /\ val = -1 /\ ret = -1

TaxIdle == taxpc = "idle" /\ tinc = 0 /\ table = <<>> /\ taxOut = NoOut

InitTax ==
    /\ taxpc = "call"
    /\ tinc \in Incomes
    /\ table \in Tables
    /\ taxOut = NoOut
    /\ LoanIdle
    /\ BondIdle

ItaxCall ==
    /\ taxpc = "call"
    /\ taxOut' = itax(tinc, table)
    /\ taxpc' = "done"
    /\ UNCHANGED <<tinc, table, loanVars, bondVars>>

NextTax == ItaxCall

SpecTax == InitTax /\ [][NextTax]_vars

---------------------------------------------------------------------------
(* Calendar dates: records [y, m, d] *)

IsLeap(yr) == (yr % 4 = 0 /\ yr % 100 # 0) \/ yr % 400 = 0

DaysIn(yr, mo) ==
    IF mo = 2 THEN (IF IsLeap(yr) THEN 29 ELSE 28)
    ELSE IF mo \in {4, 6, 9, 11} THEN 30 ELSE 31

Date(yr, mo, dy) == [y |-> yr, m |-> mo, d |-> dy]

ValidDate(dt) == dt.m \in 1..12 /\ dt.d \in 1..DaysIn(dt.y, dt.m)

\* datetime.date ordering
DateLT(a, b) ==
    \/ a.y < b.y
    \/ a.y = b.y /\ a.m < b.m
    \/ a.y = b.y /\ a.m = b.m /\ a.d < b.d

\* months counted from year 0, and back
MonthIndex(dt) == 12 * dt.y + (dt.m - 1)

MonthStart(i) == Date(i \div 12, (i % 12) + 1, 1)

\* dt + n * pd.offsets.Day(): n calendar days later
RECURSIVE AddDays(_, _)
AddDays(dt, n) ==
    IF dt.d + n <= DaysIn(dt.y, dt.m) THEN Date(dt.y, dt.m, dt.d + n)
    ELSE AddDays(MonthStart(MonthIndex(dt) + 1), n - (DaysIn(dt.y, dt.m) - dt.d + 1))

---------------------------------------------------------------------------
(* pmt, ppmt, ipmt, ldf, dedmint.                                          *)
(* The annual rate is a whole number of percent, so the monthly rate       *)
(* rate/12 is the fraction rnum/rden below.  Every amount of a schedule    *)
(* is principal * coefficient / Den exactly, where Den is the common       *)
(* denominator of the annuity formulas numpy_financial evaluates; amounts  *)
(* are rounded once, to cents, by ldf's df.round.  pmt, ppmt and ipmt     *)
(* below are those coefficients: the payment per unit of principal, times  *)
(* Den.                                                                    *)

\* rate/12 = rnum/rden in lowest terms
rnum(r) == r \div Gcd(r, 1200)

rden(r) == 1200 \div Gcd(r, 1200)

\* b^e, or cap + 1 as soon as it passes cap
RECURSIVE PowCap(_, _, _)
PowCap(b, e, cap) ==
    IF e = 0 THEN 1
    ELSE LET p == PowCap(b, e - 1, cap)
         IN  IF p > cap \div b THEN cap + 1 ELSE p * b

\* The largest common denominator the exact arithmetic is carried with
MaxDen == 500000000

\* (1 + rate/12)^n is carried exactly
Representable(r, n) ==
    PowCap(rnum(r) + rden(r), n, MaxDen \div rden(r)) <= MaxDen \div rden(r)

\* the common denominator: fact of npf.pmt, (temp - 1)/rate with
\* temp = (1 + rate)^nper, or nper when the rate is 0
Den(r, n) ==
    IF r = 0 THEN n
    ELSE rden(r) * (Pow(rnum(r) + rden(r), n) - Pow(rden(r), n))

\* pmt per unit of principal, times Den: temp/fact
pmt(r, n) ==
    IF r = 0 THEN 1 ELSE rnum(r) * Pow(rnum(r) + rden(r), n)

\* ipmt of period per, per unit of principal, times Den: the balance left
\* after per - 1 payments (npf._rbl) times the rate
ipmt(r, per, n) ==
    IF r = 0 THEN 0
    ELSE rnum(r) * (Pow(rnum(r) + rden(r), n)
                    - Pow(rnum(r) + rden(r), per - 1) * Pow(rden(r), n - per + 1))

ppmtNoInterest(r, per, n) == pmt(r, n)

\* ppmt of period per: npf.ppmt is total payment - ipmt
ppmt(r, per, n) == pmt(r, n) - ipmt(r, per, n)

\* df['Principal'].cumsum() at row per
RECURSIVE cumsumCoef(_, _, _)
cumsumCoef(r, per, n) ==
    IF per = 0 THEN 0 ELSE cumsumCoef(r, per - 1, n) + ppmt(r, per, n)

\* df.round(2) of pv dollars * coef / den, in cents
Cents(pv, coef, den) ==
    IF coef >= 0 THEN MulDivRound(pv * 100, coef, den)
    ELSE -MulDivRound(pv * 100, -coef, den)

\* the Date column: month starts from the start date's month, each moved
\* on by day - 1 days
dateColumn(start, per) ==
    IF start = NoDate THEN NoDate
    ELSE AddDays(MonthStart(MonthIndex(start) + per - 1), start.d - 1)

ldf(r, n, pv, start) ==
    [per \in 1..n |->
        [Month     |-> per,
         Date      |-> dateColumn(start, per),
         Payment   |-> Cents(pv, pmt(r, n), Den(r, n)),
         Principal |-> Cents(pv, ppmt(r, per, n), Den(r, n)),
         Interest  |-> Cents(pv, ipmt(r, per, n), Den(r, n)),
         Balance   |-> Cents(pv, Den(r, n) - cumsumCoef(r, per, n), Den(r, n))]]

\* the chunks seq[pos:pos + size] for pos in range(pos, len(seq), size)
RECURSIVE chunksFrom(_, _, _)
chunksFrom(seq, size, pos) ==
    IF pos >= Len(seq) THEN <<>>
    ELSE <<SubSeq(seq, pos + 1, Min(pos + size, Len(seq)))>>
         \o chunksFrom(seq, size, pos + size)

chunkerShort(seq, size) == chunksFrom(seq, size - 1, 0)

_chunker(seq, size) == chunksFrom(seq, size, 0)

RECURSIVE SumInterest(_)
SumInterest(rows) ==
    IF rows = <<>> THEN 0 ELSE rows[1].Interest + SumInterest(Tail(rows))

DeductionCap == 750000

dedmint(r, n, pv) ==
    LET capped == IF pv > DeductionCap THEN DeductionCap ELSE pv
        df == ldf(r, n, capped, NoDate)
        mint == [i \in 1..Len(_chunker(df, 12)) |-> SumInterest(_chunker(df, 12)[i])]
    IN  [yr \in 1..Len(mint) |->
            \* df.round(2) of a sum of cent amounts
            [Year |-> yr, Interest |-> RoundDiv(mint[yr], 1)]]

\* The calls
MaxNper == 14

Rates == {0, 3, 600, 1200}

Principals == {1, 1200, DeductionCap, DeductionCap + 1, DeductionCap + 150000}

StartYears == {2023, 2024}

StartDates ==
    { dt \in [y : StartYears, m : {1, 2, 11, 12}, d : {1, 28, 29, 30, 31}] :
        ValidDate(dt) }

InitLoan ==
    /\ loanpc = "call"
    /\ loanOp \in {"ldf", "dedmint"}
    /\ rate \in Rates
    /\ nper \in 1..MaxNper
    /\ Representable(rate, nper)
    /\ lprin \in Principals
    /\ start_date \in IF loanOp = "ldf" THEN StartDates \cup {NoDate} ELSE {NoDate}
    /\ loanOut = <<>>
    /\ TaxIdle
    /\ BondIdle

LdfCall ==
    /\ loanpc = "call" /\ loanOp = "ldf"
    /\ loanOut' = ldf(rate, nper, lprin, start_date)
    /\ loanpc' = "done"
    /\ UNCHANGED <<loanOp, rate, nper, lprin, start_date, taxVars, bondVars>>

DedmintCall ==
    /\ loanpc = "call" /\ loanOp = "dedmint"
    /\ loanOut' = dedmint(rate, nper, lprin)
    /\ loanpc' = "done"
    /\ UNCHANGED <<loanOp, rate, nper, lprin, start_date, taxVars, bondVars>>

NextLoan == LdfCall \/ DedmintCall

SpecLoan == InitLoan /\ [][NextLoan]_vars

---------------------------------------------------------------------------
(* ibnd: the value of an I bond.                                           *)
(* Rates are in thousandths (0.0177 is about 17), a composite rate in      *)
(* millionths, money in thousandths of a dollar; each compounding rounds   *)
(* to that unit as the float product rounds to the nearest double.         *)

\* the key of the rate period of a date ('%Y-%m-%d' of a May 1 or November 1)
_rate_date(dt) ==
    IF dt.m < 5 THEN Date(dt.y - 1, 11, 1)
    ELSE IF dt.m < 11 THEN Date(dt.y, 5, 1)
    ELSE Date(dt.y, 11, 1)

\* dt + relativedelta(months=n): n months on, the day cut to the month's length
AddMonths(dt, n) ==
    LET first == MonthStart(MonthIndex(dt) + n)
    IN  Date(first.y, first.m, Min(dt.d, DaysIn(first.y, first.m)))

\* fixed_rate + (2*floating_rate) + (fixed_rate * floating_rate), millionths
composite(fixed, floating) == 1000 * (fixed + 2 * floating) + fixed * floating

\* fv(rate, nper, prin) with pmt = 0: prin * (1 + rate/12)^nper
fv(r, n, pv) == MulDivRound(pv, Pow(12000000 + r, n), Pow(12000000, n))

relookEarly(months) == months >= 6

\* if m > 6: the rate date is looked up again
relook(months) == months > 6

pyIndexClamped(len, i) == IF i >= 0 THEN i ELSE Max(len + i, 0)

\* the position a Python list of length len reads for index i, or -1 when the
\* index is out of range (IndexError)
pyIndex(len, i) ==
    IF i >= 0 THEN (IF i < len THEN i ELSE -1)
    ELSE (IF len + i >= 0 THEN len + i ELSE -1)

\* the index the penalty step reads: prin[-1] or prin[-4]
penaltyIndex(len, penalty) ==
    IF penalty THEN (IF len > 60 THEN -1 ELSE -4) ELSE -1

round4TieDown(v) ==
    LET rem == v % 4000 IN IF rem <= 2000 THEN v - rem ELSE v - rem + 4000

\* bonds are rounded to the nearest $4 when redeemed
round4(v) ==
    LET rem == v % 4000 IN IF rem < 2000 THEN v - rem ELSE v - rem + 4000

\* The calls
BaseYear == 2020

\* the longest holding period, in months past the 60 of the penalty
MaxMonthsPastFive == 1

HoldMonths == 0..(60 + MaxMonthsPastFive)

PurchaseDates ==
    {Date(BaseYear, 1, 31), Date(BaseYear, 5, 1), Date(BaseYear, 11, 15)}

RedeemDays == {1, 15, 28}

BondPrincipals == 101..103

RateDates ==
    { Date(yr, mo, 1) : yr \in (BaseYear - 1)..(BaseYear + 7), mo \in {5, 11} }

\* Two rate tables: the fixed rate 0 throughout, as in the 2021 table, and
\* one whose fixed rate changes from period to period.  Both hold every rate
\* date a run looks up: a missing key (KeyError) is not among the runs.
RateTables ==
    { [k \in RateDates |-> <<0, 17 + 6 * ((2 * k.y + k.m \div 11) % 4)>>],
      [k \in RateDates |-> <<(2 * k.y + k.m \div 11) % 3,
                             10 + 7 * ((2 * k.y + k.m \div 11) % 5)>>] }

InitBond ==
    /\ bondpc = "loop"
    /\ pdate \in PurchaseDates
    /\ principal \in BondPrincipals
    /\ \E h \in HoldMonths, dy \in RedeemDays :
          redate = Date(MonthStart(MonthIndex(pdate) + h).y,
                        MonthStart(MonthIndex(pdate) + h).m, dy)
    /\ ~DateLT(redate, pdate)
    /\ early_penalty \in BOOLEAN
    /\ IBND \in RateTables
    \* prin = [prin]; rdate = _rate_date(pdate); fixed_rate = IBND[rdate][0];
    \* redate.replace(day=1) builds a date that is dropped; date = pdate; m = 1
    /\ prin = <<principal * 1000>>
    /\ rdate = _rate_date(pdate)
    /\ fixed_rate = IBND[_rate_date(pdate)][1]
    /\ date = pdate
    /\ m = 1
    /\ used = <<>>
    /\ picked = -1 /\ val = -1 /\ ret = -1
    /\ TaxIdle
    /\ LoanIdle

\* one turn of the while loop
IbndStep ==
    /\ bondpc = "loop"
    /\ DateLT(date, redate)
    /\ LET floating_rate == IBND[rdate][2]
           composite_rate == composite(fixed_rate, floating_rate)
       IN  prin' = Append(prin, fv(composite_rate, 1, prin[Len(prin)]))
    /\ date' = AddMonths(date, 1)
    /\ IF relook(m + 1)
       THEN rdate' = _rate_date(date') /\ m' = 1
       ELSE rdate' = rdate /\ m' = m + 1
    /\ used' = Append(used, rdate)
    /\ UNCHANGED <<bondpc, pdate, principal, redate, early_penalty, IBND,
                   fixed_rate, picked, val, ret, taxVars, loanVars>>

\* after the loop: the penalty step, the rounding, the return
IbndRedeem ==
    /\ bondpc = "loop"
    /\ ~DateLT(date, redate)
    /\ picked' = pyIndex(Len(prin), penaltyIndex(Len(prin), early_penalty))
    /\ IF picked' = -1
       THEN bondpc' = "raised" /\ UNCHANGED <<val, ret>>
       ELSE /\ bondpc' = "returned"
            /\ val' = prin[picked' + 1]
            /\ ret' = round4(val')
    /\ UNCHANGED <<pdate, principal, redate, early_penalty, IBND, prin, date, m,
                   rdate, fixed_rate, used, taxVars, loanVars>>

NextBond == IbndStep \/ IbndRedeem

SpecBond == InitBond /\ [][NextBond]_vars

---------------------------------------------------------------------------
(* The properties checked *)

\* the sum of f[i] over i in lo..hi
RECURSIVE SumRange(_, _, _)
SumRange(f, lo, hi) == IF lo > hi THEN 0 ELSE f[lo] + SumRange(f, lo + 1, hi)

\* rate_i * max(0, min(income, t_{i+1}) - t_i), t_{i+1} unbounded for the last
BracketPart(inc, t, i) ==
    rateOf(t, i) * Max(0, (IF i < Len(t) THEN Min(inc, brackets(t)[i + 1]) ELSE inc)
                          - brackets(t)[i])

\* C1: for a non-empty table and an income >= 0, itax does not fail and returns
\* the sum over the brackets of rate_i * max(0, min(income, t_{i+1}) - t_i),
\* rounded to 2 decimals; income above the last threshold is taxed at the last
\* rate.
C1_BracketSum ==
    (taxpc = "done" /\ tinc >= 0) =>
        taxOut = Value(Round2(SumRange([i \in 1..Len(table) |->
                                            BracketPart(tinc, table, i)],
                                       1, Len(table))))

\* C9: itax with a negative income is rejected: it returns no tax value.
C9_NegativeIncomeRejected ==
    (taxpc = "done" /\ tinc < 0) => taxOut.kind # "value"

\* C2: the schedule of ldf has nper rows numbered 1..nper, its Principal column
\* sums to the principal within 0.01 * nper, and its last Balance is within
\* 0.01 * nper of 0.
C2_ScheduleAmortizes ==
    (loanpc = "done" /\ loanOp = "ldf") =>
        /\ Len(loanOut) = nper
        /\ \A k \in 1..Len(loanOut) : loanOut[k].Month = k
        /\ Abs(SumRange([k \in 1..Len(loanOut) |-> loanOut[k].Principal],
                        1, Len(loanOut)) - 100 * lprin) <= nper
        /\ Abs(loanOut[Len(loanOut)].Balance) <= nper

\* C2 witness: a schedule at a positive rate whose rounded principal payments
\* do not sum to the principal exactly
C2_Witness ==
    /\ loanpc = "done" /\ loanOp = "ldf" /\ rate > 0 /\ nper >= 3
    /\ SumRange([k \in 1..Len(loanOut) |-> loanOut[k].Principal],
                1, Len(loanOut)) # 100 * lprin

\* C7: with a start date, row k carries the date k - 1 whole months after it
\* with the day of the month kept, also for days 29, 30 and 31: one row per
\* calendar month, none skipped.
C7_DatesStepByMonth ==
    (loanpc = "done" /\ loanOp = "ldf" /\ start_date # NoDate) =>
        \A k \in 1..Len(loanOut) :
            /\ MonthIndex(loanOut[k].Date) = MonthIndex(start_date) + k - 1
            /\ loanOut[k].Date.d = start_date.d

\* C8: dedmint returns ceil(nper/12) rows numbered from 1; row y is the sum of
\* the Interest of rows 12(y-1)+1 .. min(12y, nper) of the schedule of
\* min(principal, 750000): the last year is shorter when 12 does not divide
\* nper.
C8_YearlyInterest ==
    (loanpc = "done" /\ loanOp = "dedmint") =>
        LET sched == ldf(rate, nper, Min(lprin, DeductionCap), NoDate)
            interest == [k \in 1..nper |-> sched[k].Interest]
        IN  /\ Len(loanOut) = (nper + 11) \div 12
            /\ \A y \in 1..Len(loanOut) :
                  /\ loanOut[y].Year = y
                  /\ loanOut[y].Interest =
                        SumRange(interest, 12 * (y - 1) + 1, Min(12 * y, nper))

\* C8 witness: a capped loan over more than a year, the last year short
C8_Witness ==
    /\ loanpc = "done" /\ loanOp = "dedmint"
    /\ nper > 12 /\ nper % 12 # 0 /\ lprin > DeductionCap
    /\ Len(loanOut) = 2 /\ loanOut[2].Interest > 0

\* C3: compounding steps 6j+1 .. 6j+6 all use the floating rate of the rate
\* period of purchase date + 6j months, the rate date is looked up at no other
\* step, and the fixed rate stays that of the purchase date's period.
C3_RateLookedUpEverySixMonths ==
    (bondpc # "idle") =>
        /\ fixed_rate = IBND[_rate_date(pdate)][1]
        /\ rdate = _rate_date(AddMonths(pdate, 6 * (Len(used) \div 6)))
        /\ \A k \in 1..Len(used) :
              used[k] = _rate_date(AddMonths(pdate, 6 * ((k - 1) \div 6)))
        \* the step just taken compounded at that rate (every step is the
        \* last one of the state it leads to)
        /\ Len(used) > 0 =>
              prin[Len(prin)] =
                  fv(composite(IBND[_rate_date(pdate)][1],
                               IBND[used[Len(used)]][2]),
                     1, prin[Len(prin) - 1])

\* C3 witness: thirteen steps over three rate dates, the first rate kept past
\* a calendar reset, and a later period whose fixed rate is not the bond's
C3_Witness ==
    /\ bondpc = "returned" /\ Len(used) >= 13
    /\ used[1] # used[7] /\ used[7] # used[13]
    /\ used[6] # _rate_date(AddMonths(pdate, 5))
    /\ IBND[used[7]][1] # fixed_rate

\* the months from the purchase month to the evaluation month
ElapsedMonths == MonthIndex(redate) - MonthIndex(pdate)

\* C4: the stepping stops when the simulated month reaches the evaluation
\* month, whatever the evaluation date's day: the number of steps is the
\* number of months between the two months.
C4_StopsAtEvaluationMonth ==
    (bondpc \in {"returned", "raised"}) =>
        /\ MonthIndex(date) = MonthIndex(redate)
        /\ Len(prin) - 1 = ElapsedMonths

\* C5: with at least 4 snapshots, the value extracted is the snapshot 3 before
\* the last when early_penalty is set and fewer than 60 months have elapsed,
\* and the last snapshot otherwise.
C5_PenaltyUnderSixtyMonths ==
    (bondpc \in {"returned", "raised"} /\ Len(prin) >= 4) =>
        /\ bondpc = "returned"
        /\ picked = IF early_penalty /\ ElapsedMonths < 60
                    THEN Len(prin) - 4 ELSE Len(prin) - 1
        /\ val = prin[picked + 1]

\* C6: the value returned is the multiple of 4 nearest the value extracted,
\* the remainders 0 and 1 going down and 2 and 3 up: 101 gives 100, 103 gives
\* 104.
C6_RoundedToFour ==
    (bondpc = "returned") =>
        /\ ret % 4000 = 0
        /\ ret - 2000 <= val /\ val < ret + 2000
        /\ (val = 101000 => ret = 100000)
        /\ (val = 103000 => ret = 104000)

\* C6 witness: the values 103 (up to 104) and, half way, 102
C6_Witness ==
    /\ bondpc = "returned"
    /\ \/ val = 103000 /\ ret = 104000
       \/ val = 102000 /\ ret = 104000

====
